---------------------------- MODULE Spec2Model ----------------------------
(***************************************************************************)
(* Model of the gem5 parameter-sweep harness (aca.py and                   *)
(* source/run_utils.py): the nested sweep loop, the simulator subprocess,  *)
(* the statistics file the simulator leaves behind, and the CSV report.    *)
(*                                                                         *)
(* Python strings are sequences of one-character strings. Python's None is *)
(* the record value None below; an integer result is [kind |-> "int"].     *)
(***************************************************************************)
EXTENDS Integers, Sequences, FiniteSets, TLC

(***************************************************************************)
(* Bounds of the model                                                     *)
(***************************************************************************)
\* longest size string drawn for the pure conversion functions
MaxLen == 4
\* longest list of values drawn for a command-line option
MaxList == 2
\* longest list of parts drawn for --parts
MaxParts == 2
\* most rows a drawn command line asks for
MaxRows == 2

(***************************************************************************)
(* Strings                                                                 *)
(***************************************************************************)
NL == "\n"

DigitChars == {"0", "1", "2", "3", "4", "5", "6", "7", "8", "9"}

DigitVal(c) ==
    CASE c = "0" -> 0 [] c = "1" -> 1 [] c = "2" -> 2 [] c = "3" -> 3
      [] c = "4" -> 4 [] c = "5" -> 5 [] c = "6" -> 6 [] c = "7" -> 7
      [] c = "8" -> 8 [] c = "9" -> 9

\* str.isdigit(): non-empty and every character a digit
isdigit(s) == Len(s) > 0 /\ \A i \in 1..Len(s) : s[i] \in DigitChars

\* s[:-n]
DropLast(s, n) == SubSeq(s, 1, Len(s) - n)

\* str.endswith(suffix)
endswith(s, suffix) ==
    /\ Len(s) >= Len(suffix)
    /\ SubSeq(s, Len(s) - Len(suffix) + 1, Len(s)) = suffix

\* int(s) for a string of decimal digits
RECURSIVE int(_)
int(s) ==
    IF Len(s) = 0 THEN 0
    ELSE 10 * int(DropLast(s, 1)) + DigitVal(s[Len(s)])

UpperChar(c) ==
    CASE c = "k" -> "K" [] c = "m" -> "M" [] c = "b" -> "B" [] OTHER -> c

\* str.upper()
upper(s) == [i \in 1..Len(s) |-> UpperChar(s[i])]

\* the part of the size patterns between ^ and $: \d+(k|M)?B, the unit
\* letters being (k|M) in run_utils.py and (K|M) in aca.py
MatchCore(s, units) ==
    /\ Len(s) >= 2
    /\ s[Len(s)] = "B"
    /\ LET r == DropLast(s, 1)
       IN  \/ isdigit(r)
           \/ /\ r[Len(r)] \in units
              /\ isdigit(DropLast(r, 1))

\* re.match(r"^\d+(k|M)?B$", s): $ matches at the end of the string and
\* also just before a newline that ends the string
match(s, units) ==
    \/ MatchCore(s, units)
    \/ /\ Len(s) >= 1
       /\ s[Len(s)] = NL
       /\ MatchCore(DropLast(s, 1), units)

(***************************************************************************)
(* Values                                                                  *)
(***************************************************************************)
None == [kind |-> "None", val |-> 0, den |-> 1]
IntVal(n) == [kind |-> "int", val |-> n, den |-> 1]
Raise(e) == [kind |-> e, val |-> 0, den |-> 1]

IsException(r) == r.kind \notin {"int", "float", "None"}

(***************************************************************************)
(* size_string_to_int                                                      *)
(***************************************************************************)
\* the body shared by the two copies of size_string_to_int, which differ
\* in the factor of the "kB" and "MB" branches only
SizeStringToInt(size, kilo) ==
    IF isdigit(DropLast(size, 1)) /\ endswith(size, <<"B">>)
    THEN IntVal(int(DropLast(size, 1)))
    ELSE IF isdigit(DropLast(size, 2))
         THEN IF endswith(size, <<"k", "B">>)
              THEN IntVal(int(DropLast(size, 2)) * kilo)
              ELSE IF endswith(size, <<"M", "B">>)
                   THEN IntVal(int(DropLast(size, 2)) * kilo * kilo)
                   ELSE None
         ELSE Raise("ValueError")

\* size_string_to_int of source/run_utils.py
size_string_to_int(size) == SizeStringToInt(size, 1024)

\* size_string_to_int of aca.py
aca_size_string_to_int(size) == SizeStringToInt(size, 1000)


(***************************************************************************)
(* Floats, statistics file                                                 *)
(***************************************************************************)
RECURSIVE GCD(_, _)
GCD(m, n) == IF n = 0 THEN m ELSE GCD(n, m % n)

\* the quotient taken the wrong way round: d / n
Float_swapped(n, d) ==
    LET g == GCD(n, d)
    IN  IF g = 0 THEN [kind |-> "float", val |-> 0, den |-> 1]
        ELSE [kind |-> "float", val |-> d \div g, den |-> n \div g]

\* the float n / d, kept as a reduced fraction (d > 0)
Float(n, d) ==
    LET g == GCD(n, d)
    IN  IF g = 0 THEN [kind |-> "float", val |-> 0, den |-> 1]
        ELSE [kind |-> "float", val |-> n \div g, den |-> d \div g]

\* a local name that has not been assigned yet
Unbound == [kind |-> "unbound", val |-> 0, den |-> 1]

\* one line of stats.txt: its label and the number in its second column;
\* the miss rate column is a decimal fraction, kept in thousandths
StatLine(label, val) == [label |-> label, val |-> val]

LblInsts == "simInsts"
LblCycles == "system.cpu.numCycles"
LblMissRate == "system.cpu.dcache.overallMissRate::cpu.data"
LblOther == "simSeconds"

StatCPI == "Cycles Per Instruction"
StatMissRate == "Overall DCache Miss Rate"

\* the while loop of get_statistic and what follows it, from line i on
RECURSIVE get_statistic_scan(_, _, _, _)
get_statistic_scan(lines, i, statistic, instruction_count) ==
    IF i > Len(lines)
    THEN IF statistic = "cpi"
         THEN IF instruction_count.kind = "unbound"
              THEN Raise("UnboundLocalError")
              ELSE IF instruction_count.val = 0
                   THEN Raise("Could not find instruction count in stats.txt")
                   ELSE Raise("UnboundLocalError")
         ELSE IF statistic = "overall_dcache_miss_rate"
              THEN Raise("Could not find overall dcache miss rate in stats.txt")
              ELSE None
    ELSE LET line == lines[i]
         IN  IF statistic = StatCPI
             THEN IF line.label = LblInsts
                  THEN get_statistic_scan(lines, i + 1, statistic, IntVal(line.val))
                  ELSE IF line.label = LblCycles
                       THEN IF instruction_count.kind = "unbound"
                            THEN Raise("UnboundLocalError")
                            ELSE IF instruction_count.val = 0
                                 THEN Raise("ZeroDivisionError")
                                 ELSE Float(line.val, instruction_count.val)
                       ELSE get_statistic_scan(lines, i + 1, statistic, instruction_count)
             ELSE IF statistic = StatMissRate /\ line.label = LblMissRate
                  THEN Float(line.val, 1000)
                  ELSE get_statistic_scan(lines, i + 1, statistic, instruction_count)

\* get_statistic without its test for an empty file
get_statistic_no_empty_test(st, statistic) ==
    IF ~st.exists THEN Raise("FileNotFoundError")
    ELSE get_statistic_scan(st.lines, 1, statistic, Unbound)

\* get_statistic of source/run_utils.py on the stats.txt file st
get_statistic(st, statistic) ==
    IF ~st.exists THEN Raise("FileNotFoundError")
    ELSE IF st.lines = <<>>
         THEN Raise("Empty stats.txt")
         ELSE get_statistic_scan(st.lines, 1, statistic, Unbound)

\* the while loop of cpi and what follows it, from line i on
RECURSIVE cpi_scan(_, _, _)
cpi_scan(lines, i, instruction_count) ==
    IF i > Len(lines)
    THEN IF instruction_count.kind = "unbound"
         THEN Raise("UnboundLocalError")
         ELSE IF instruction_count.val = 0
              THEN Raise("Could not find instruction count in stats.txt")
              ELSE Raise("UnboundLocalError")
    ELSE LET line == lines[i]
         IN  IF line.label = LblInsts
             THEN cpi_scan(lines, i + 1, IntVal(line.val))
             ELSE IF line.label = LblCycles
                  THEN IF instruction_count.kind = "unbound"
                       THEN Raise("UnboundLocalError")
                       ELSE IF instruction_count.val = 0
                            THEN Raise("ZeroDivisionError")
                            ELSE Float(line.val, instruction_count.val)
                  ELSE cpi_scan(lines, i + 1, instruction_count)

\* cpi of aca.py on the stats.txt file st
cpi(st) ==
    IF ~st.exists THEN Raise("FileNotFoundError")
    ELSE IF st.lines = <<>>
         THEN Raise("Empty stats.txt")
         ELSE cpi_scan(st.lines, 1, Unbound)

(***************************************************************************)
(* Output files                                                            *)
(***************************************************************************)
\* one line of a CSV file
HeaderLine(text) ==
    [kind |-> "header", text |-> text, arch |-> "", bench |-> "",
     v0 |-> None, v1 |-> None, stat |-> None]

OldLine(text) ==
    [kind |-> "old", text |-> text, arch |-> "", bench |-> "",
     v0 |-> None, v1 |-> None, stat |-> None]

RowLine(arch, bench, v0, v1, stat) ==
    [kind |-> "row", text |-> "", arch |-> arch, bench |-> bench,
     v0 |-> v0, v1 |-> v1, stat |-> stat]

\* what a write past the end of a file leaves between the old end and the
\* written line
HoleLine == OldLine("")

AcaHeader ==
    HeaderLine("Architecture,Benchmark,Instruction Cache Size [B],Data Cache Size [B],CPI")

AcaOutput == "out/results.csv"

\* f"{arguments.output_directory}/part_{part}.csv"
PartOutput(part) ==
    IF part = "a" THEN "out/results/part_a.csv" ELSE "out/results/part_b.csv"

FileNames == {AcaOutput, PartOutput("a"), PartOutput("b")}

NoFile == [exists |-> FALSE, lines |-> <<>>]

\* the line written at line offset pos of a file
PutLine(lines, pos, line) ==
    IF pos < Len(lines)
    THEN [lines EXCEPT ![pos + 1] = line]
    ELSE lines \o [i \in 1..(pos - Len(lines)) |-> HoleLine] \o <<line>>

RECURSIVE PutLines(_, _, _)
PutLines(lines, pos, buf) ==
    IF buf = <<>> THEN lines
    ELSE PutLines(PutLine(lines, pos, Head(buf)), pos + 1, Tail(buf))

\* open(name, mode): "w" creates or truncates, "a" creates or keeps
open_file(fs, name, mode) ==
    [fs EXCEPT ![name] =
        [exists |-> TRUE,
         lines |-> IF mode = "w" THEN <<>> ELSE fs[name].lines]]

\* the file object open() returns: its offset in lines and its write buffer
FileObject(name, mode) ==
    [file |-> name, mode |-> mode, pos |-> 0, buf |-> <<>>]

\* file.write(line): the line goes to the buffer of the file object
write(h, line) == [h EXCEPT !.buf = h.buf \o <<line>>]

\* the offset a flush writes at: the end of the file in append mode
\* (O_APPEND), the offset of the file object otherwise
FlushPos(fs, h) == IF h.mode = "a" THEN Len(fs[h.file].lines) ELSE h.pos

\* file.flush() (also done by close()): the files after it
flush_files(fs, h) ==
    [fs EXCEPT ![h.file].lines = PutLines(fs[h.file].lines, FlushPos(fs, h), h.buf)]

\* file.flush(): the file object after it
flush_object(fs, h) ==
    [h EXCEPT !.pos = FlushPos(fs, h) + Len(h.buf), !.buf = <<>>]

(***************************************************************************)
(* State                                                                   *)
(***************************************************************************)
VARIABLES
    prog,         \* the script that runs: "aca" (aca.py) or "run_utils"
    arguments,    \* the parsed command line (args / arguments)
    dir_exists,   \* whether the output directory exists
    files,        \* the output files on disk: existence and lines
    stats,        \* m5out/stats.txt: existence and lines
    handles,      \* the open file objects, in the order they were opened
    parts,        \* the list setup_parts returns
    pc,           \* the position of the script
    idx,          \* the indices of the nested loops and of the option loop
    procs,        \* the simulator subprocesses started so far
    failed,       \* a subprocess of this run has exited with a non-zero code
    interrupted,  \* a KeyboardInterrupt arrived during a wait
    combo,        \* the number of combinations started
    written,      \* the rows handed to write() by this run
    exc,          \* the exception that ended the run, if any
    fn_arg,       \* argument of the function under study (SpecFn)
    fn_res        \* its result (SpecFn)

vars ==
    <<prog, arguments, dir_exists, files, stats, handles, parts, pc, idx,
      procs, failed, interrupted, combo, written, exc, fn_arg, fn_res>>

fnvars == <<fn_arg, fn_res>>

(***************************************************************************)
(* Sweep: the variables of a part, the options of a benchmark              *)
(***************************************************************************)
Variable(value, argument, name, units) ==
    [value |-> value, argument |-> argument, name |-> name, units |-> units]

\* the variables and the statistic setup_parts gives a part; units "" is
\* the default units=None
PartVariables(args, part) ==
    IF part = "a"
    THEN << Variable(args.icache_sizes, "l1i_size", "ICache Size", "B"),
            Variable(args.dcache_sizes, "l1d_size", "DCache Size", "B") >>
    ELSE << Variable(args.dcache_associativity, "l1d_assoc", "DCache Associativity", ""),
            Variable(args.cacheline_sizes, "cacheline_size", "Cacheline Size", "") >>

PartStatistic(part) == IF part = "a" THEN StatCPI ELSE StatMissRate

\* the header line setup_parts writes for a part
PartHeader(part) ==
    HeaderLine(IF part = "a"
               THEN "Architecture,Benchmark,ICache Size(B),DCache Size(B),Cycles Per Instruction"
               ELSE "Architecture,Benchmark,DCache Associativity,Cacheline Size,Overall DCache Miss Rate")

\* part != "a" in run_simulations, part being a Part object and "a" a
\* str: an object without __eq__ is unequal to every str
PartNotEqualStr(part, str) == TRUE

\* the architectures run_simulations iterates for a part
architectures(args, part) ==
    IF PartNotEqualStr(part, "a")
    THEN << args.architectures[1] >>
    ELSE args.architectures

\* options with a single invocation for susan
options_single(benchmark) ==
    IF benchmark \in {"dummy", "susan", "crc"} THEN << "" >> ELSE << >>

\* the options (one simulator invocation each) of a benchmark
options(benchmark) ==
    IF benchmark = "dummy" THEN << "" >>
    ELSE IF benchmark = "susan" THEN << "-s", "-e", "-c" >>
    ELSE IF benchmark = "crc" THEN << ".pcm" >>
    ELSE << >>

ValidBenchmark(prg, benchmark) ==
    IF prg = "aca" THEN benchmark \in {"susan", "crc"}
    ELSE benchmark \in {"dummy", "susan", "crc"}

ValidArchitecture(architecture) == architecture \in {"ARM", "X86"}

\* variable_size & (variable_size - 1), bit by bit
RECURSIVE BitAnd(_, _)
BitAnd(x, y) ==
    IF x = 0 \/ y = 0 THEN 0
    ELSE 2 * BitAnd(x \div 2, y \div 2) + (IF x % 2 = 1 /\ y % 2 = 1 THEN 1 ELSE 0)

\* check_variable without the power-of-two test
check_variable_no_power_test(variable) ==
    IF variable.units = "B"
    THEN IF ~match(variable.value, {"k", "M"})
         THEN Raise("Invalid value")
         ELSE LET variable_size == size_string_to_int(variable.value)
              IN  IF IsException(variable_size) THEN variable_size ELSE None
    ELSE None

\* the check run_simulation makes of one variable (lines 39-49): the
\* exception it raises, or None
check_variable(variable) ==
    IF variable.units = "B"
    THEN IF ~match(variable.value, {"k", "M"})
         THEN Raise("Invalid value")
         ELSE LET variable_size == size_string_to_int(variable.value)
              IN  IF IsException(variable_size) THEN variable_size
                  ELSE IF variable_size.kind = "None" THEN Raise("TypeError")
                  ELSE IF ~(variable_size.val # 0
                            /\ BitAnd(variable_size.val, variable_size.val - 1) = 0)
                       THEN Raise("not a power of 2")
                       ELSE None
    ELSE None

\* run_simulation up to its option loop (lines 16-49): the exception
\* raised, or None
run_simulation_checks(benchmark, architecture, variables) ==
    IF ~ValidBenchmark("run_utils", benchmark) THEN Raise("Invalid benchmark")
    ELSE IF ~ValidArchitecture(architecture) THEN Raise("Invalid architecture")
    ELSE IF check_variable(variables[1]).kind # "None" THEN check_variable(variables[1])
    ELSE check_variable(variables[2])

\* run_benchmark up to its argument loop (aca.py lines 13-37)
run_benchmark_checks(benchmark, architecture, icache_size, dcache_size) ==
    IF ~ValidBenchmark("aca", benchmark) THEN Raise("Invalid benchmark")
    ELSE IF ~ValidArchitecture(architecture) THEN Raise("Invalid architecture")
    ELSE IF ~match(upper(icache_size), {"K", "M"}) THEN Raise("Invalid value")
    ELSE IF ~match(upper(dcache_size), {"K", "M"}) THEN Raise("Invalid value")
    ELSE None

(***************************************************************************)
(* The current combination                                                 *)
(***************************************************************************)
CurPart == parts[idx.p]

\* the two lists of values the two innermost loops iterate
ValueLists ==
    IF prog = "aca"
    THEN << arguments.icache_sizes, arguments.dcache_sizes >>
    ELSE << PartVariables(arguments, CurPart.part)[1].value,
            PartVariables(arguments, CurPart.part)[2].value >>

CurArchitectures ==
    IF prog = "aca" THEN arguments.architectures
    ELSE architectures(arguments, CurPart)

architecture == CurArchitectures[idx.a]
benchmark == arguments.benchmarks[idx.b]
icache_size == arguments.icache_sizes[idx.v0]
dcache_size == arguments.dcache_sizes[idx.v1]

\* the two Variable objects run_simulations builds for a combination
variables ==
    LET pv == PartVariables(arguments, CurPart.part)
    IN  << Variable(pv[1].value[idx.v0], pv[1].argument, pv[1].name, pv[1].units),
           Variable(pv[2].value[idx.v1], pv[2].argument, pv[2].name, pv[2].units) >>

FirstIdx == [p |-> 1, a |-> 1, b |-> 1, v0 |-> 1, v1 |-> 1, o |-> 1]

\* no combination follows the current one
LastCombination ==
    /\ idx.v1 = Len(ValueLists[2])
    /\ idx.v0 = Len(ValueLists[1])
    /\ idx.b = Len(arguments.benchmarks)
    /\ idx.a = Len(CurArchitectures)
    /\ (prog = "run_utils" => idx.p = Len(parts))

\* the loop indices of the combination after the current one
NextIdx ==
    IF idx.v1 < Len(ValueLists[2])
    THEN [idx EXCEPT !.v1 = @ + 1, !.o = 1]
    ELSE IF idx.v0 < Len(ValueLists[1])
    THEN [idx EXCEPT !.v0 = @ + 1, !.v1 = 1, !.o = 1]
    ELSE IF idx.b < Len(arguments.benchmarks)
    THEN [idx EXCEPT !.b = @ + 1, !.v0 = 1, !.v1 = 1, !.o = 1]
    ELSE IF idx.a < Len(CurArchitectures)
    THEN [idx EXCEPT !.a = @ + 1, !.b = 1, !.v0 = 1, !.v1 = 1, !.o = 1]
    ELSE [FirstIdx EXCEPT !.p = idx.p + 1]

\* the file object rows of the current combination are written to
CurHandle == IF prog = "aca" THEN 1 ELSE CurPart.output_file

\* leaving the with block of aca.py closes the output file; run_utils.py
\* closes nothing on the way out, its file objects hold nothing unflushed
CloseOnExit(fs) ==
    IF prog = "aca" /\ Len(handles) > 0
    THEN flush_files(fs, handles[1])
    ELSE fs

HandlesOnExit ==
    IF prog = "aca" /\ Len(handles) > 0
    THEN [handles EXCEPT ![1] = flush_object(files, handles[1])]
    ELSE handles

(***************************************************************************)
(* Setup                                                                   *)
(***************************************************************************)
\* aca.py lines 200-219: the output directory, the prompt, open() and the
\* header
aca_main_setup ==
    /\ pc = "start"
    /\ prog = "aca"
    /\ \E answer \in {"y", "n"} :
         LET existed == files[AcaOutput].exists
             append == IF existed THEN arguments.append ELSE FALSE
             mode == IF append THEN "a" ELSE "w"
             output_file == FileObject(AcaOutput, mode)
         IN  IF existed /\ answer # "y"
             THEN /\ pc' = "exit"
                  /\ UNCHANGED <<arguments, files, handles>>
             ELSE /\ arguments' = [arguments EXCEPT !.append = append]
                  /\ files' = open_file(files, AcaOutput, mode)
                  /\ handles' = << IF append THEN output_file
                                   ELSE write(output_file, AcaHeader) >>
                  /\ pc' = "combo"
    /\ dir_exists' = TRUE
    /\ UNCHANGED <<prog, stats, parts, idx, procs, failed, interrupted,
                   combo, written, exc, fnvars>>

\* run_utils.py lines 281-291
setup_output_directory ==
    /\ pc = "start"
    /\ prog = "run_utils"
    /\ \E answer \in {"y", "n"} :
         IF ~dir_exists
         THEN /\ dir_exists' = TRUE
              /\ pc' = "setup_parts"
         ELSE /\ dir_exists' = dir_exists
              /\ pc' = IF ~arguments.append /\ answer # "y"
                       THEN "exit" ELSE "setup_parts"
    /\ UNCHANGED <<prog, arguments, files, stats, handles, parts, idx, procs,
                   failed, interrupted, combo, written, exc, fnvars>>

\* run_utils.py lines 313-346: one iteration of the loop of setup_parts;
\* after the last one the list is returned to run_simulations
setup_parts ==
    /\ pc = "setup_parts"
    /\ LET part == arguments.parts[Len(parts) + 1]
           mode == IF arguments.append THEN "a" ELSE "w"
           opened == open_file(files, PartOutput(part), mode)
           output_file == FileObject(PartOutput(part), mode)
           with_header == write(output_file, PartHeader(part))
       IN  /\ files' = IF ~arguments.append
                       THEN flush_files(opened, with_header)
                       ELSE opened
           /\ handles' = Append(handles,
                                IF ~arguments.append
                                THEN flush_object(opened, with_header)
                                ELSE output_file)
           /\ parts' = Append(parts,
                              [part |-> part,
                               output_file |-> Len(handles) + 1,
                               statistic |-> PartStatistic(part)])
    /\ pc' = IF Len(parts) + 1 = Len(arguments.parts) THEN "combo" ELSE "setup_parts"
    /\ UNCHANGED <<prog, arguments, dir_exists, stats, idx, procs, failed,
                   interrupted, combo, written, exc, fnvars>>

(***************************************************************************)
(* One combination                                                         *)
(***************************************************************************)
\* what the simulator can leave in m5out/stats.txt
StatsOutcomes ==
    { << >>,
      << StatLine(LblOther, 1) >>,
      << StatLine(LblInsts, 2) >>,
      << StatLine(LblCycles, 4), StatLine(LblInsts, 2) >>,
      << StatLine(LblInsts, 0), StatLine(LblCycles, 4) >>,
      << StatLine(LblOther, 1), StatLine(LblInsts, 2),
         StatLine(LblCycles, 4), StatLine(LblMissRate, 125) >> }

\* the checks at the head of run_benchmark (aca.py 13-37) and of
\* run_simulation (run_utils.py 16-49)
entry_checks ==
    IF prog = "aca"
    THEN run_benchmark_checks(benchmark, architecture, icache_size, dcache_size)
    ELSE run_simulation_checks(benchmark, architecture, variables)

\* a combination starts: the loop body up to the first Popen
StartCombination ==
    /\ pc = "combo"
    /\ combo' = combo + 1
    /\ IF entry_checks.kind # "None"
       THEN /\ pc' = "exception"
            /\ exc' = entry_checks.kind
            /\ files' = CloseOnExit(files)
            /\ handles' = HandlesOnExit
       ELSE /\ pc' = "popen"
            /\ UNCHANGED <<exc, files, handles>>
    /\ UNCHANGED <<prog, arguments, dir_exists, stats, parts, idx, procs,
                   failed, interrupted, written, fnvars>>

\* Popen that goes on to the next option without process.wait()
Popen_no_wait ==
    /\ pc = "popen"
    /\ procs' = Append(procs, [st |-> "running", combo |-> combo])
    /\ IF idx.o < Len(options(benchmark))
       THEN /\ idx' = [idx EXCEPT !.o = @ + 1]
            /\ pc' = "popen"
       ELSE /\ idx' = idx
            /\ pc' = "wait"
    /\ UNCHANGED <<prog, arguments, dir_exists, files, stats, handles, parts,
                   failed, interrupted, combo, written, exc, fnvars>>

\* subprocess.Popen(command, ...) for the current option (aca.py 40-52,
\* run_utils.py 52-67)
Popen ==
    /\ pc = "popen"
    /\ procs' = Append(procs, [st |-> "running", combo |-> combo])
    /\ pc' = "wait"
    /\ idx' = idx
    /\ UNCHANGED <<prog, arguments, dir_exists, files, stats, handles, parts,
                   failed, interrupted, combo, written, exc, fnvars>>

\* the simulator exits with some return code, having rewritten stats.txt
\* or not, and process.wait() returns (aca.py 54, run_utils.py 69)
wait ==
    /\ pc = "wait"
    /\ \E returncode \in {0, 1} :
         failed' = (failed \/ returncode # 0)
    /\ \E after \in {stats} \cup {[exists |-> TRUE, lines |-> out] : out \in StatsOutcomes} :
         stats' = after
    /\ procs' = [procs EXCEPT ![Len(procs)].st = "exited"]
    /\ IF idx.o < Len(options(benchmark))
       THEN /\ idx' = [idx EXCEPT !.o = @ + 1]
            /\ pc' = "popen"
       ELSE /\ idx' = idx
            /\ pc' = "write"
    /\ UNCHANGED <<prog, arguments, dir_exists, files, handles, parts,
                   interrupted, combo, written, exc, fnvars>>

\* the handler without its exit(): the loops go on after terminate()
KeyboardInterrupt_no_exit ==
    /\ pc = "wait"
    /\ interrupted' = TRUE
    /\ procs' = [procs EXCEPT ![Len(procs)].st = "terminated"]
    /\ IF idx.o < Len(options(benchmark))
       THEN /\ idx' = [idx EXCEPT !.o = @ + 1]
            /\ pc' = "popen"
       ELSE /\ idx' = idx
            /\ pc' = "write"
    /\ UNCHANGED <<prog, arguments, dir_exists, files, stats, handles, parts,
                   failed, combo, written, exc, fnvars>>

\* a KeyboardInterrupt arrives during process.wait(): process.terminate()
\* and exit() (aca.py 59-61, run_utils.py 70-72)
KeyboardInterrupt ==
    /\ pc = "wait"
    /\ interrupted' = TRUE
    /\ procs' = [procs EXCEPT ![Len(procs)].st = "terminated"]
    /\ pc' = "exit"
    /\ files' = CloseOnExit(files)
    /\ handles' = HandlesOnExit
    /\ idx' = idx
    /\ UNCHANGED <<prog, arguments, dir_exists, stats, parts, failed,
                   combo, written, exc, fnvars>>

\* the values of the row of the current combination, in the order the
\* f-string evaluates them
RowFields ==
    IF prog = "aca"
    THEN << aca_size_string_to_int(icache_size),
            aca_size_string_to_int(dcache_size),
            cpi(stats) >>
    ELSE << IF variables[1].units = "B"
            THEN size_string_to_int(variables[1].value)
            ELSE IntVal(variables[1].value),
            IF variables[2].units = "B"
            THEN size_string_to_int(variables[2].value)
            ELSE IntVal(variables[2].value),
            get_statistic(stats, CurPart.statistic) >>

\* the first exception raised while the row is built, or None
RowException ==
    IF IsException(RowFields[1]) THEN RowFields[1]
    ELSE IF IsException(RowFields[2]) THEN RowFields[2]
    ELSE IF IsException(RowFields[3]) THEN RowFields[3]
    ELSE None

\* output_file.write(row) and flush(), then the next combination
\* (aca.py 239-242, run_utils.py 396-406)
WriteRow ==
    /\ pc = "write"
    /\ IF RowException.kind # "None"
       THEN /\ pc' = "exception"
            /\ exc' = RowException.kind
            /\ files' = CloseOnExit(files)
            /\ handles' = HandlesOnExit
            /\ UNCHANGED <<written, idx>>
       ELSE LET row == RowLine(architecture, benchmark,
                               RowFields[1], RowFields[2], RowFields[3])
                h == write(handles[CurHandle], row)
            IN  /\ files' = flush_files(files, h)
                /\ handles' = [handles EXCEPT ![CurHandle] = flush_object(files, h)]
                /\ written' = Append(written,
                                     [file |-> h.file, combo |-> combo, line |-> row])
                /\ IF LastCombination
                   THEN pc' = "finish" /\ idx' = idx
                   ELSE pc' = "combo" /\ idx' = NextIdx
                /\ exc' = exc
    /\ UNCHANGED <<prog, arguments, dir_exists, stats, parts, procs, failed,
                   interrupted, combo, fnvars>>

\* after the loops: aca.py 243-247 closes the file and removes m5out;
\* run_simulations (408-414) calls parts.values() on a list
Finish ==
    /\ pc = "finish"
    /\ IF prog = "aca"
       THEN /\ files' = CloseOnExit(files)
            /\ handles' = HandlesOnExit
            /\ stats' = [exists |-> FALSE, lines |-> << >>]
            /\ pc' = "done"
            /\ exc' = exc
       ELSE /\ pc' = "exception"
            /\ exc' = "AttributeError"
            /\ UNCHANGED <<files, handles, stats>>
    /\ UNCHANGED <<prog, arguments, dir_exists, parts, idx, procs, failed,
                   interrupted, combo, written, fnvars>>

(***************************************************************************)
(* Inputs                                                                  *)
(***************************************************************************)
\* the non-empty sequences over S of length at most n (nargs="+")
SeqsUpTo(S, n) == UNION {[1..k -> S] : k \in 1..n}

Programs == {"aca", "run_utils"}

ArchLists == { <<"X86">>, <<"ARM">>, <<"X86", "ARM">> }

BenchLists(prg) ==
    { <<"crc">>, <<"susan">>, <<"crc", "susan">> }
        \cup (IF prg = "run_utils" THEN { <<"dummy">> } ELSE {})

GoodSize == <<"2", "k", "B">>

\* size strings of the sweep: well formed; no "B"; upper-case unit; a
\* trailing newline; and, for run_utils.py, which looks at the byte
\* count, not a power of two; zero
SizeSamples(prg) ==
    { GoodSize, <<"2", "k">>, <<"1", "K", "B">>, <<"2", "B", NL>> }
        \cup (IF prg = "run_utils"
              THEN { <<"3", "k", "B">>, <<"0", "B">> } ELSE {})

SizeLists(prg) == SeqsUpTo(SizeSamples(prg), MaxList)

AssocLists == SeqsUpTo({1, 2}, MaxList)

CachelineLists == SeqsUpTo({16, 32}, MaxList)

PartLists == SeqsUpTo({"a", "b"}, MaxParts)

\* the rows a command line asks for
RowsAsked(prg, args) ==
    IF prg = "aca"
    THEN Len(args.architectures) * Len(args.benchmarks)
           * Len(args.icache_sizes) * Len(args.dcache_sizes)
    ELSE LET n(part) ==
                 IF part = "a"
                 THEN Len(args.architectures) * Len(args.benchmarks)
                        * Len(args.icache_sizes) * Len(args.dcache_sizes)
                 ELSE Len(args.benchmarks)
                        * Len(args.dcache_associativity) * Len(args.cacheline_sizes)
             sum[k \in 0..Len(args.parts)] ==
                 IF k = 0 THEN 0 ELSE sum[k - 1] + n(args.parts[k])
         IN  sum[Len(args.parts)]

\* command lines that vary the parts, the append flag and the
\* architectures, with well-formed values
SetupArguments(prg) ==
    { args \in [ parts : IF prg = "aca" THEN { << >> } ELSE PartLists,
                 architectures : ArchLists,
                 benchmarks : { <<"crc">> },
                 icache_sizes : { << GoodSize >> },
                 dcache_sizes : SeqsUpTo({GoodSize}, MaxList),
                 dcache_associativity : { <<1>> },
                 cacheline_sizes : SeqsUpTo({16}, MaxList),
                 append : BOOLEAN ] :
        RowsAsked(prg, args) <= MaxRows }

\* command lines that vary the architectures, the benchmarks and the
\* values of one part, without --append
SweepArguments(prg) ==
    { args \in [ parts : IF prg = "aca" THEN { << >> } ELSE { <<"a">> },
                 architectures : ArchLists,
                 benchmarks : BenchLists(prg),
                 icache_sizes : SizeLists(prg),
                 dcache_sizes : SizeLists(prg),
                 dcache_associativity : { <<1>> },
                 cacheline_sizes : { <<16>> },
                 append : {FALSE} ] :
        RowsAsked(prg, args) <= MaxRows }
    \cup
    { args \in [ parts : IF prg = "aca" THEN { } ELSE { <<"b">> },
                 architectures : ArchLists,
                 benchmarks : BenchLists(prg),
                 icache_sizes : { << GoodSize >> },
                 dcache_sizes : { << GoodSize >> },
                 dcache_associativity : AssocLists,
                 cacheline_sizes : CachelineLists,
                 append : {FALSE} ] :
        RowsAsked(prg, args) <= MaxRows }

\* the header a file of an earlier run starts with
HeaderOf(name) ==
    IF name = AcaOutput THEN AcaHeader
    ELSE IF name = PartOutput("a") THEN PartHeader("a") ELSE PartHeader("b")

NoFiles == [name \in FileNames |-> NoFile]

\* the output files before the run: none, empty ones, or ones an earlier
\* run has written
InitialFiles ==
    { NoFiles,
      [name \in FileNames |-> [exists |-> TRUE, lines |-> << >>]],
      [name \in FileNames |->
          [exists |-> TRUE, lines |-> << HeaderOf(name), OldLine("row") >>]] }

NoResult == [kind |-> "unset", val |-> 0, den |-> 1]

Init ==
    /\ prog \in Programs
    /\ \/ /\ arguments \in SetupArguments(prog)
          /\ files \in InitialFiles
          /\ dir_exists \in {TRUE} \cup {b \in {FALSE} : files = NoFiles}
       \/ /\ arguments \in SweepArguments(prog)
          /\ files = NoFiles
          /\ dir_exists = FALSE
    /\ stats = [exists |-> FALSE, lines |-> << >>]
    /\ handles = << >>
    /\ parts = << >>
    /\ pc = "start"
    /\ idx = FirstIdx
    /\ procs = << >>
    /\ failed = FALSE
    /\ interrupted = FALSE
    /\ combo = 0
    /\ written = << >>
    /\ exc = ""
    /\ fn_arg = << >>
    /\ fn_res = NoResult

Next ==
    \/ aca_main_setup
    \/ setup_output_directory
    \/ setup_parts
    \/ StartCombination
    \/ Popen
    \/ wait
    \/ KeyboardInterrupt
    \/ WriteRow
    \/ Finish

Spec == Init /\ [][Next]_vars

(***************************************************************************)
(* The conversion functions on their own                                   *)
(***************************************************************************)
FnAlphabet == {"0", "1", "2", "6", "k", "K", "M", "B", NL}

FnStrings == UNION {[1..n -> FnAlphabet] : n \in 0..MaxLen}

InitFn ==
    /\ prog \in Programs
    /\ fn_arg \in FnStrings
    /\ fn_res = NoResult
    /\ pc = "fn"
    /\ arguments = [parts |-> << >>, architectures |-> <<"X86">>,
                    benchmarks |-> <<"crc">>, icache_sizes |-> << fn_arg >>,
                    dcache_sizes |-> << fn_arg >>, dcache_associativity |-> <<1>>,
                    cacheline_sizes |-> <<16>>, append |-> FALSE]
    /\ files = NoFiles
    /\ dir_exists = FALSE
    /\ stats = [exists |-> FALSE, lines |-> << >>]
    /\ handles = << >>
    /\ parts = << >>
    /\ idx = FirstIdx
    /\ procs = << >>
    /\ failed = FALSE
    /\ interrupted = FALSE
    /\ combo = 0
    /\ written = << >>
    /\ exc = ""

\* size_string_to_int(fn_arg), of the script prog
call_size_string_to_int ==
    /\ pc = "fn"
    /\ fn_res' = IF prog = "aca"
                 THEN aca_size_string_to_int(fn_arg)
                 ELSE size_string_to_int(fn_arg)
    /\ pc' = "fn_done"
    /\ UNCHANGED <<prog, arguments, dir_exists, files, stats, handles, parts,
                   idx, procs, failed, interrupted, combo, written, exc, fn_arg>>

NextFn == call_size_string_to_int

SpecFn == InitFn /\ [][NextFn]_vars

(***************************************************************************)
(* Observations used by the properties                                     *)
(***************************************************************************)
\* the number a string of decimal digits denotes
RECURSIVE Pow(_, _)
Pow(b, e) == IF e = 0 THEN 1 ELSE b * Pow(b, e - 1)

NatOf(d) ==
    LET sum[k \in 0..Len(d)] ==
            IF k = 0 THEN 0
            ELSE sum[k - 1] + DigitVal(d[k]) * Pow(10, Len(d) - k)
    IN  sum[Len(d)]

\* the simulator subprocesses started for combination c
LaunchesOf(c) == Cardinality({i \in DOMAIN procs : procs[i].combo = c})

\* s is an initial part of t
IsPrefix(s, t) == Len(s) <= Len(t) /\ SubSeq(t, 1, Len(s)) = s

Range(f) == {f[x] : x \in DOMAIN f}

(***************************************************************************)
(* C1: rows of part a                                                      *)
(***************************************************************************)
\* the (architecture, benchmark, icache size, dcache size) of the rows of
\* part a, one for every combination of ALL the selected architectures,
\* benchmarks, icache sizes and dcache sizes, in nested iteration order
ExpectedPartARows ==
    LET A == arguments.architectures
        B == arguments.benchmarks
        I == arguments.icache_sizes
        D == arguments.dcache_sizes
        n == Len(A) * Len(B) * Len(I) * Len(D)
    IN  [k \in 1..n |->
            << A[((k - 1) \div (Len(B) * Len(I) * Len(D))) + 1],
               B[(((k - 1) \div (Len(I) * Len(D))) % Len(B)) + 1],
               size_string_to_int(I[(((k - 1) \div Len(D)) % Len(I)) + 1]),
               size_string_to_int(D[((k - 1) % Len(D)) + 1]) >>]

\* the same four columns of the rows this run wrote to part_a.csv
WrittenPartARows ==
    LET rows == SelectSeq(written, LAMBDA w : w.file = PartOutput("a"))
    IN  [k \in 1..Len(rows) |->
            << rows[k].line.arch, rows[k].line.bench,
               rows[k].line.v0, rows[k].line.v1 >>]

\* C1: when part a is selected and run_simulations has gone through all
\* its loops, part_a.csv has received exactly one row for every
\* combination of all selected architectures, benchmarks, icache sizes
\* and dcache sizes, in nested iteration order
C1_RowForEveryCombination ==
    (prog = "run_utils" /\ pc = "finish" /\ arguments.parts = <<"a">>)
        => WrittenPartARows = ExpectedPartARows

(***************************************************************************)
(* C2: simulator launches per combination                                  *)
(***************************************************************************)
\* C2 as stated: every combination whose row has been written had the
\* simulator launched exactly once, whatever the benchmark
C2_OneLaunchPerCombination ==
    \A i \in DOMAIN written : LaunchesOf(written[i].combo) = 1

\* the invocations a benchmark takes: susan runs its smoothing, edges and
\* corners modes
LaunchesExpected(b) == IF b = "susan" THEN 3 ELSE 1

\* C2 amended: every combination whose row has been written had the
\* simulator launched once per mode of its benchmark: exactly once for
\* crc and dummy, exactly three times for susan
C2_OneLaunchPerOption ==
    \A i \in DOMAIN written :
        LaunchesOf(written[i].combo) = LaunchesExpected(written[i].line.bench)

\* a susan row and a crc row have been written in one run
C2_Witness ==
    /\ \E i \in DOMAIN written :
          written[i].line.bench = "susan" /\ LaunchesOf(written[i].combo) = 3
    /\ \E i \in DOMAIN written :
          written[i].line.bench = "crc" /\ LaunchesOf(written[i].combo) = 1

(***************************************************************************)
(* C3: size_string_to_int                                                  *)
(***************************************************************************)
\* C3: both copies of size_string_to_int return n for "<n>B", n * 1024
\* for "<n>kB" and n * 1024 * 1024 for "<n>MB"
C3_BinaryUnits ==
    pc = "fn_done" =>
        /\ (endswith(fn_arg, <<"B">>) /\ isdigit(DropLast(fn_arg, 1)))
              => fn_res = IntVal(NatOf(DropLast(fn_arg, 1)))
        /\ (endswith(fn_arg, <<"k", "B">>) /\ isdigit(DropLast(fn_arg, 2)))
              => fn_res = IntVal(NatOf(DropLast(fn_arg, 2)) * 1024)
        /\ (endswith(fn_arg, <<"M", "B">>) /\ isdigit(DropLast(fn_arg, 2)))
              => fn_res = IntVal(NatOf(DropLast(fn_arg, 2)) * 1024 * 1024)

(***************************************************************************)
(* C4: non-zero exit codes                                                 *)
(***************************************************************************)
\* C4: once a simulator subprocess has exited with a non-zero code the
\* run is over: no row is written and no subprocess is started after it
C4_NonZeroExitAborts ==
    [][failed => (Len(written') = Len(written) /\ Len(procs') = Len(procs))]_vars

(***************************************************************************)
(* C5: empty stats.txt                                                     *)
(***************************************************************************)
\* the statistic reader is reached when the row is built: the size
\* columns before it in the f-string raise nothing
ReaderReached == ~IsException(RowFields[1]) /\ ~IsException(RowFields[2])

\* C5: when stats.txt is empty at the time the row of a combination is
\* built, the run ends in an exception (the reader's "Empty stats.txt"
\* when the reader is reached), no row is handed to write(), and every
\* file keeps the lines it had, rows of earlier combinations included
C5_EmptyStatsRaises ==
    [][(pc = "write" /\ stats.exists /\ stats.lines = << >>)
          => /\ pc' = "exception"
             /\ ReaderReached => exc' = "Empty stats.txt"
             /\ written' = written
             /\ \A name \in FileNames :
                   /\ IsPrefix(files[name].lines, files'[name].lines)
                   /\ \A i \in (Len(files[name].lines) + 1)..Len(files'[name].lines) :
                         files'[name].lines[i].kind # "row"]_vars

\* the reader has raised on an empty stats.txt after a row was written
C5_Witness ==
    /\ pc = "exception"
    /\ exc = "Empty stats.txt"
    /\ stats.exists /\ stats.lines = << >>
    /\ Len(written) >= 1
    /\ \E name \in FileNames : \E i \in DOMAIN files[name].lines :
          files[name].lines[i].kind = "row"

(***************************************************************************)
(* C6: KeyboardInterrupt during a wait                                     *)
(***************************************************************************)
\* C6: after a KeyboardInterrupt during a wait the script has exited, the
\* subprocess it waited on has been sent terminate() and is the last one
\* ever started, and the interrupted combination has no row
C6_InterruptTerminatesAndExits ==
    interrupted =>
        /\ pc = "exit"
        /\ procs[Len(procs)].st = "terminated"
        /\ procs[Len(procs)].combo = combo
        /\ \A i \in DOMAIN written : written[i].combo # combo

\* the interrupt came in the second combination, after a row
C6_Witness ==
    /\ interrupted
    /\ pc = "exit"
    /\ combo = 2
    /\ Len(written) = 1

(***************************************************************************)
(* C7: one subprocess at a time                                            *)
(***************************************************************************)
\* the subprocesses that have not exited
Alive == {i \in DOMAIN procs : procs[i].st # "exited"}

\* C7: at most one simulator subprocess is alive, and every subprocess
\* but the one started last has exited
C7_StrictlySequential ==
    /\ Cardinality(Alive) <= 1
    /\ \A i \in 1..(Len(procs) - 1) : procs[i].st = "exited"

\* a subprocess runs after two invocations of one combination and after
\* a step to the next combination
C7_Witness ==
    /\ Len(procs) >= 4
    /\ procs[1].combo = procs[2].combo
    /\ procs[Len(procs)].combo # procs[1].combo
    /\ procs[Len(procs)].st = "running"

(***************************************************************************)
(* C8: the output file is append-only                                      *)
(***************************************************************************)
\* line i of the file is still there, unchanged, after the step
LineKept(name, i) ==
    /\ i <= Len(files'[name].lines)
    /\ files'[name].lines[i] = files[name].lines[i]

PowerOfTwo(n) == \E k \in 0..30 : Pow(2, k) = n

\* digits followed by an optional k or M and B, with a byte count that
\* is a power of two (and so not zero)
WellFormedSize(s) ==
    \/ /\ endswith(s, <<"B">>)
       /\ isdigit(DropLast(s, 1))
       /\ PowerOfTwo(NatOf(DropLast(s, 1)))
    \/ /\ endswith(s, <<"k", "B">>)
       /\ isdigit(DropLast(s, 2))
       /\ PowerOfTwo(NatOf(DropLast(s, 2)) * 1024)
    \/ /\ endswith(s, <<"M", "B">>)
       /\ isdigit(DropLast(s, 2))
       /\ PowerOfTwo(NatOf(DropLast(s, 2)) * 1024 * 1024)

\* a byte-unit variable of the current combination of run_utils.py has a
\* malformed value
MalformedCombination ==
    /\ prog = "run_utils"
    /\ pc \in {"combo", "popen", "wait", "write"}
    /\ \E k \in {1, 2} :
          variables[k].units = "B" /\ ~WellFormedSize(variables[k].value)

\* C9: run_simulation is never past its checks with a malformed
\* byte-unit value, and the step that starts such a combination raises
\* an exception without starting a subprocess or writing a row
C9_MalformedSizeNeverLaunched ==
    [][MalformedCombination
          => /\ pc = "combo"
             /\ pc' = "exception"
             /\ procs' = procs
             /\ written' = written
             /\ files' = files]_vars

\* the second combination was refused for a size that is not a power of
\* two, after the row of the first
C9_Witness ==
    /\ prog = "run_utils"
    /\ pc = "exception"
    /\ exc = "not a power of 2"
    /\ combo = 2
    /\ Len(written) = 1
    /\ Len(procs) = 1

(***************************************************************************)
(* C10: stats.txt without the lines of the statistic                       *)
(***************************************************************************)
HasLine(lines, label) == \E i \in DOMAIN lines : lines[i].label = label

\* stats.txt lacks a labeled line the statistic is computed from
LacksStatistic(lines, statistic) ==
    IF statistic = StatCPI
    THEN ~HasLine(lines, LblInsts) \/ ~HasLine(lines, LblCycles)
    ELSE ~HasLine(lines, LblMissRate)

CouldNotFind ==
    { "Could not find instruction count in stats.txt",
      "Could not find cycle count in stats.txt",
      "Could not find overall dcache miss rate in stats.txt" }

\* C10: when the row of a combination is built from a non-empty
\* stats.txt that lacks the lines of the statistic, get_statistic raises
\* a "Could not find ..." exception and no row is written
C10_MissingStatisticRaises ==
    [][(prog = "run_utils" /\ pc = "write" /\ stats.exists
           /\ stats.lines # << >>
           /\ LacksStatistic(stats.lines, CurPart.statistic))
          => /\ pc' = "exception"
             /\ exc' \in CouldNotFind
             /\ written' = written]_vars

(***************************************************************************)
(* C11: the CPI read from stats.txt                                        *)
(***************************************************************************)
\* the row of the current combination is about to be built and its
\* statistic is the CPI
CPIRead ==
    /\ pc = "write"
    /\ stats.exists
    /\ (prog = "run_utils" => CurPart.statistic = StatCPI)
    /\ ReaderReached

\* the first line of stats.txt with the label
FirstLine(label) ==
    CHOOSE i \in DOMAIN stats.lines :
        /\ stats.lines[i].label = label
        /\ \A j \in 1..(i - 1) : stats.lines[j].label # label

\* the step writes a row whose statistic is the float cycles / insts
WritesCPI(cycles, insts) ==
    /\ Len(written') = Len(written) + 1
    /\ LET stat == written'[Len(written')].line.stat
       IN  /\ stat.kind = "float"
           /\ stat.val * insts = stat.den * cycles

\* C11 as stated: whenever stats.txt holds a simInsts line and a
\* system.cpu.numCycles line, in either order, the reader returns the
\* cycle count divided by the instruction count
C11_CPIEitherOrder ==
    [][(CPIRead /\ HasLine(stats.lines, LblInsts) /\ HasLine(stats.lines, LblCycles))
          => WritesCPI(stats.lines[FirstLine(LblCycles)].val,
                       stats.lines[FirstLine(LblInsts)].val)]_vars

\* a simInsts line with a non-zero count comes before the first
\* system.cpu.numCycles line; the index of the last such line
InstsBeforeCycles ==
    {i \in 1..(FirstLine(LblCycles) - 1) : stats.lines[i].label = LblInsts}

LastInstsBeforeCycles ==
    CHOOSE i \in InstsBeforeCycles : \A j \in InstsBeforeCycles : j <= i

\* C11 amended: whenever stats.txt holds a simInsts line before its first
\* system.cpu.numCycles line, with a non-zero instruction count, the
\* reader returns the cycle count of that numCycles line divided by the
\* instruction count of the last simInsts line before it
C11_CPIInstsFirst ==
    [][(/\ CPIRead
        /\ HasLine(stats.lines, LblCycles)
        /\ InstsBeforeCycles # {}
        /\ stats.lines[LastInstsBeforeCycles].val # 0)
          => WritesCPI(stats.lines[FirstLine(LblCycles)].val,
                       stats.lines[LastInstsBeforeCycles].val)]_vars

\* a row holds the CPI 4 / 2 read from a stats.txt with simInsts 2 before
\* system.cpu.numCycles 4
C11_Witness ==
    /\ Len(written) >= 1
    /\ stats.exists
    /\ HasLine(stats.lines, LblCycles)
    /\ InstsBeforeCycles # {}
    /\ stats.lines[LastInstsBeforeCycles].val = 2
    /\ stats.lines[FirstLine(LblCycles)].val = 4
    /\ written[Len(written)].line.stat = [kind |-> "float", val |-> 2, den |-> 1]


\* the lines of kind k of a file
LinesOfKind(lines, k) == {i \in DOMAIN lines : lines[i].kind = k}

\* C12: every output CSV that holds at least one data row begins with
\* exactly one header line: its first line is the header and it holds no
\* second header, whatever the append flag and whether the file existed
\* before the run.
C12_OneHeaderFirst ==
    \A name \in FileNames :
        LinesOfKind(files[name].lines, "row") # {}
            => /\ files[name].lines[1].kind = "header"
               /\ Cardinality(LinesOfKind(files[name].lines, "header")) = 1

\* C13: every cache size string that passes the size validation of the
\* sweep yields an integer byte count in the CSV row: size_string_to_int
\* returns an integer and never None for it, so no written row holds None
\* in a size column.
C13_SizeColumnsAreIntegers ==
    \A i \in 1..Len(written) :
        /\ written[i].line.v0.kind = "int"
        /\ written[i].line.v1.kind = "int"

==============================================================================
